---- MODULE Spec2Model ----
(***************************************************************************)
(* The Python binding of the Keystone assembler engine                     *)
(* (bindings/python/keystone/keystone.py): the class Ks, which owns one    *)
(* backend handle, and the native library it calls through ctypes.         *)
(*                                                                         *)
(* The binding's state is the fields of each Ks object (_ksh, _arch,       *)
(* _mode, _syntax, _sym_resolver).  The native library is the environment: *)
(* what it returns is chosen nondeterministically, and the little of its   *)
(* state the binding's contract talks about (allocated handles, the        *)
(* registered resolver, the configured syntax, the last error, the result  *)
(* buffers) is kept in the be_* variables.  Every call the binding makes   *)
(* into the library during one operation is recorded, in order, in calls.  *)
(***************************************************************************)
EXTENDS Integers, Sequences, FiniteSets, TLC

\* ---------------------------------------------------------------- bounds
NumSessions == 1        \* Ks objects constructed in one run
MaxBufs == 2            \* result buffers the backend allocates in one run
MaxFiles == 2            \* library files installed on the machine

\* ------------------------------------------------------------- constants
\* keystone_const's values, imported at keystone.py:8
KS_API_MAJOR == 0
KS_API_MINOR == 9
KS_ERR_OK == 0
KS_ERR_ARCH == 2
KS_ERR_HANDLE == 3
KS_ERR_VERSION == 5
KS_ERR_OPT_INVALID == 6
KS_OPT_SYNTAX == 1
KS_OPT_SYM_RESOLVER == 2
\* Python's None, and the NULL a ctypes pointer starts as
None == 0

Sessions == 1..NumSessions
Handles == 1..NumSessions
Buffers == 1..MaxBufs
\* KS_SYM_RESOLVER objects: one kept by each Ks object, and the one being made
Callbacks == 1..(NumSessions + 1)
Styles == {1, 2}
\* statement counts ks_asm reports
StatCounts == {0, 1}
\* the encodings ks_asm produces for a non-empty source
Encodings == {<<144>>, <<235, 254>>}
\* the (arch, mode) pairs Ks is constructed with
ArchModes == {<<4, 8>>}

\* what the backend can answer
Versions == {<<KS_API_MAJOR, KS_API_MINOR>>, <<KS_API_MAJOR + 1, KS_API_MINOR>>,
             <<KS_API_MAJOR, KS_API_MINOR - 1>>}
OpenStatuses == {KS_ERR_OK, KS_ERR_ARCH}
CloseStatuses == {KS_ERR_OK, KS_ERR_HANDLE}
OptionStatuses == {KS_ERR_OK, KS_ERR_OPT_INVALID}
\* ks_asm's return value: 0, or a failure indication
AsmStatuses == {0, -1}
\* the error codes ks_errno can report after a failed ks_asm
AsmErrnos == {512}

VARIABLES
    constructed,    \* per Ks object: "absent", "live" (__init__ returned), "failed" (__init__ raised)
    ksh,            \* self._ksh
    archmode,       \* self._arch, self._mode
    syntax,         \* self._syntax
    sym_resolver,   \* self._sym_resolver
    be_version,     \* the (major, minor) the loaded library reports
    be_handle,      \* backend: per handle "free", "open", "closed"
    be_syntax,      \* backend: the syntax configured on a handle
    be_resolver,    \* backend: the resolver callback registered on a handle
    be_buf,         \* backend: per result buffer "free", "live", "freed", "double_freed"
    opened,         \* history: the handle ks_open gave to each Ks object
    nClose,         \* history: ks_close calls per handle
    nFree,          \* history: ks_free calls
    nNonEmpty,      \* history: asm calls that succeeded with a non-zero statement count
    crashed,        \* the process died inside the library
    last,           \* the operation that ran last
    out,            \* what the backend handed back to the last operation
    calls,          \* the backend calls of the last operation, in order
    ret,            \* how the last operation ended
    _system,        \* platform.system()
    environ,        \* os.environ: the entries of LD_LIBRARY_PATH and DYLD_LIBRARY_PATH
    distutils,      \* whether "import distutils.sysconfig" succeeds
    present,        \* the files that exist on disk
    loadable,       \* the files and bare names cdll.LoadLibrary loads without OSError
    listing,        \* the module directory's files in the order glob.glob yields them
    _ks,            \* the loaded library (NoLib while none is)
    _found,         \* the module's _found flag
    attempts,       \* history: the LoadLibrary calls made, in order
    imported,       \* "no", "ok" (the module body ran to its end), "ImportError"
    prototypes,     \* whether the _setup_prototype calls have run
    inflight,       \* per thread: the library call it is inside
    lock,           \* the callers' own lock around Ks methods: its holder
    locking         \* whether the callers take that lock

binding == <<constructed, ksh, archmode, syntax, sym_resolver>>
backend == <<be_version, be_handle, be_syntax, be_resolver, be_buf>>
history == <<opened, nClose, nFree, nNonEmpty>>
platform == <<_system, environ, distutils, present, loadable, listing>>
loader == <<platform, _ks, _found, attempts, imported, prototypes>>
threads == <<inflight, lock, locking>>
vars == <<binding, backend, history, crashed, last, out, calls, ret, loader, threads>>

\* ------------------------------------------------------------ helpers
\* one call into the native library: the entry point and its arguments
Call(fn, a, b) == [fn |-> fn, a |-> a, b |-> b]

\* ks_strerror: the backend's text for a status code
StrError(code) == [text_for |-> code]

\* how an operation ended
NoResult == [kind |-> "none", errno |-> 0, message |-> StrError(0),
             rep |-> "", enc |-> <<>>, count |-> 0]
Return(rep, enc, count) == [NoResult EXCEPT !.kind = "return", !.rep = rep,
                                            !.enc = enc, !.count = count]
Returned == Return("None", <<>>, 0)
\* KsError(errno): errno is kept and the message is ks_strerror(errno)
KsError(errno) == [NoResult EXCEPT !.kind = "raise", !.errno = errno,
                                   !.message = StrError(errno)]
\* the process died in the library: nothing comes back
Crash == [NoResult EXCEPT !.kind = "crash"]

\* what the backend handed back: the status (the return value of ks_open,
\* ks_close, ks_option or ks_asm) and, from ks_asm, the code ks_errno reports
\* for the handle and the three out-parameters
NoOut == [status |-> 0, errno |-> 0, count |-> 0, bytes |-> <<>>, buf |-> None]
Status(st) == [NoOut EXCEPT !.status = st]

\* the handle ks_open hands out: the first one never used
FreshHandle == CHOOSE h \in DOMAIN be_handle :
                  /\ be_handle[h] = "free"
                  /\ \A g \in DOMAIN be_handle : g < h => be_handle[g] # "free"
\* the buffer ks_asm allocates
FreshBuf == CHOOSE b \in Buffers :
               /\ be_buf[b] = "free"
               /\ \A c \in Buffers : c < b => be_buf[c] # "free"

\* ------------------------------------------------------------ loading the library
Systems == {"Darwin", "Windows", "Linux"}

\* a file name is the sequence of its dot-separated parts
\* "%u" % n
Decimal(n) == <<"0", "1", "2", "3", "4", "5", "6", "7", "8", "9">>[n + 1]

_lib_path == "<module directory>"
_python_lib == "<python lib>/keystone"
\* a bare library name, left to the dynamic linker
NoDir == ""

_lib_patterns(sys) ==
    CASE sys = "Darwin" -> << <<"libkeystone", "dylib">>, <<"libkeystone", "*", "dylib">> >>
      [] sys = "Windows" -> << <<"keystone", "dll">> >>
      [] OTHER -> << <<"libkeystone", "so">>, <<"libkeystone", "so", "*">> >>

_standard_libs(sys) ==
    CASE sys = "Darwin" -> << <<"libkeystone", "dylib">> >>
      [] sys = "Windows" -> << <<"keystone", "dll">> >>
      [] OTHER -> << <<"libkeystone", "so">>,
                     <<"libkeystone", "so", Decimal(KS_API_MAJOR)>> >>

_search_paths(sys, env) ==
    (IF sys = "Windows"
     THEN <<"%PROGRAMFILES%", "%PROGRAMFILES(X86)%",
            "C:/Windows/System32", "C:/Windows/SysWOW64">>
     ELSE <<"/usr/local/lib", "/usr/lib", "/opt/local/lib", "/opt/homebrew/lib",
            "/usr/lib/x86_64-linux-gnu", "/usr/lib/i386-linux-gnu", "/usr/lib64">>)
    \o env.LD_LIBRARY_PATH \o env.DYLD_LIBRARY_PATH

\* join(dir, name)
Place(dir, name) == [dir |-> dir, name |-> name]
NoLib == Place(NoDir, <<>>)
Range(q) == {q[i] : i \in 1..Len(q)}
\* the file names of seq in directory dir
Under(dir, seq) == [i \in 1..Len(seq) |-> Place(dir, seq[i])]

\* what a "*" stands for in the file names considered
Tags == {"0", "1"}
Subst(pattern, tag) ==
    [i \in 1..Len(pattern) |-> IF pattern[i] = "*" THEN tag ELSE pattern[i]]
\* the directories of _search_paths a library is installed in, in the runs
\* considered: the first and the last of the listed ones, and the entries of
\* the two environment variables
Installed(sys, env) ==
    LET listed == _search_paths(sys, [LD_LIBRARY_PATH |-> <<>>, DYLD_LIBRARY_PATH |-> <<>>])
    IN  {listed[1], listed[Len(listed)]}
        \cup Range(env.LD_LIBRARY_PATH) \cup Range(env.DYLD_LIBRARY_PATH)
\* every place a library can be in
Places(sys, env) ==
    {Place(_lib_path, Subst(p, tag)) : p \in Range(_lib_patterns(sys)), tag \in Tags}
    \cup {Place(d, n) : d \in {NoDir, _python_lib} \cup Installed(sys, env),
                        n \in Range(_standard_libs(sys))}

RECURSIVE SetsUpTo(_, _)
\* the subsets of P with at most n elements
SetsUpTo(P, n) ==
    IF n = 0 THEN {{}}
    ELSE LET S == SetsUpTo(P, n - 1) IN S \cup {s \cup {p} : s \in S, p \in P}
\* the orders a directory listing can give the files of S in
Orders(S) ==
    {q \in [1..Cardinality(S) -> S] : \A i, j \in 1..Cardinality(S) : q[i] = q[j] => i = j}

\* the module before its body runs, on some platform with some files installed
NotImported ==
    /\ _system \in Systems
    /\ environ \in [LD_LIBRARY_PATH : {<<>>, <<"/ld">>},
                    DYLD_LIBRARY_PATH : {<<>>, <<"/dyld">>}]
    /\ distutils \in BOOLEAN
    /\ \E files \in SetsUpTo(Places(_system, environ), MaxFiles) :
          /\ present = {f \in files : f.dir # NoDir}
          /\ loadable \in SUBSET files
    /\ listing \in Orders({f \in present : f.dir = _lib_path})
    /\ _ks = NoLib
    /\ _found = FALSE
    /\ attempts = <<>>
    /\ imported = "no"
    /\ prototypes = FALSE

\* the module once its body has run where the dynamic linker finds the library
Imported ==
    LET lib == Place(NoDir, _standard_libs("Linux")[1])
    IN  /\ _system = "Linux"
        /\ environ = [LD_LIBRARY_PATH |-> <<>>, DYLD_LIBRARY_PATH |-> <<>>]
        /\ distutils = TRUE
        /\ present = {}
        /\ loadable = {lib}
        /\ listing = <<>>
        /\ _ks = lib
        /\ _found = TRUE
        /\ attempts = <<lib>>
        /\ imported = "ok"
        /\ prototypes = TRUE

\* fnmatch of a file name against a pattern
Match(pattern, name) ==
    /\ Len(pattern) = Len(name)
    /\ \A i \in 1..Len(pattern) : pattern[i] = "*" \/ pattern[i] = name[i]
\* glob.glob(join(_lib_path, pattern))
Glob(pattern) == SelectSeq(listing, LAMBDA f : Match(pattern, f.name))
\* exists(path) of a directory
PathExists(dir) == \E f \in present : f.dir = dir

\* try: _ks = cdll.LoadLibrary(f); _found = True / except OSError: pass
LoadLibrary(st, f) ==
    [ks |-> IF f \in loadable THEN f ELSE st.ks,
     found |-> st.found \/ f \in loadable,
     attempts |-> Append(st.attempts, f)]

RECURSIVE LoadFirst_no_break(_, _, _)
\* a loop without its break: it goes on loading after a library has loaded
LoadFirst_no_break(st, fs, checked) ==
    IF fs = <<>> THEN st
    ELSE IF checked /\ Head(fs) \notin present
    THEN LoadFirst_no_break(st, Tail(fs), checked)
    ELSE LoadFirst_no_break(LoadLibrary(st, Head(fs)), Tail(fs), checked)

RECURSIVE LoadFirst(_, _, _)
\* for f in fs: (if exists(f), when checked:) load f, and break once one has loaded
LoadFirst(st, fs, checked) ==
    IF fs = <<>> THEN st
    ELSE IF checked /\ Head(fs) \notin present
    THEN LoadFirst(st, Tail(fs), checked)
    ELSE LET n == LoadLibrary(st, Head(fs))
         IN  IF n.found THEN n ELSE LoadFirst(n, Tail(fs), checked)

RECURSIVE ModuleDir(_, _)
\* the loop over _lib_patterns: the exact file name, then the glob matches
ModuleDir(st, patterns) ==
    IF patterns = <<>> THEN st
    ELSE LET lib_file == Place(_lib_path, Head(patterns))
             exact == IF lib_file \in present THEN LoadLibrary(st, lib_file) ELSE st
         IN  IF exact.found THEN exact
             ELSE LET globbed == LoadFirst(exact, Glob(Head(patterns)), FALSE)
                  IN  IF globbed.found THEN globbed
                      ELSE ModuleDir(globbed, Tail(patterns))

\* the bare names of _standard_libs
Linker(st) ==
    IF st.found THEN st
    ELSE LoadFirst(st, Under(NoDir, _standard_libs(_system)), FALSE)

RECURSIVE SearchPaths(_, _)
\* the loop over _search_paths
SearchPaths(st, paths) ==
    IF paths = <<>> THEN st
    ELSE IF ~PathExists(Head(paths)) THEN SearchPaths(st, Tail(paths))
    ELSE LET n == LoadFirst(st, Under(Head(paths), _standard_libs(_system)), TRUE)
         IN  IF n.found THEN n ELSE SearchPaths(n, Tail(paths))

SystemPaths(st) ==
    IF st.found THEN st ELSE SearchPaths(st, _search_paths(_system, environ))

\* the keystone directory of distutils.sysconfig.get_python_lib()
PythonLib(st) ==
    IF st.found \/ ~distutils THEN st
    ELSE LoadFirst(st, Under(_python_lib, _standard_libs(_system)), TRUE)

\* a module body that goes on without a library
ImportRaises_never(found) == FALSE
\* if not _found: raise ImportError
ImportRaises(found) == ~found

\* import keystone: the module body, up to the function prototypes
ImportKeystone ==
    /\ imported = "no"
    /\ LET st == PythonLib(SystemPaths(Linker(ModuleDir(
                     [ks |-> NoLib, found |-> FALSE, attempts |-> <<>>],
                     _lib_patterns(_system)))))
       IN  /\ _ks' = st.ks
           /\ _found' = st.found
           /\ attempts' = st.attempts
           /\ imported' = IF ImportRaises(st.found) THEN "ImportError" ELSE "ok"
           /\ prototypes' = ~ImportRaises(st.found)
    /\ UNCHANGED <<binding, backend, history, crashed, last, out, calls, ret,
                   platform, threads>>

\* none of the Ks objects S constructed yet, none of the handles H in use
Unused(S, H) ==
    /\ constructed = [s \in S |-> "absent"]
    /\ ksh = [s \in S |-> None]
    /\ archmode = [s \in S |-> <<None, None>>]
    /\ syntax = [s \in S |-> None]
    /\ sym_resolver = [s \in S |-> None]
    /\ be_version \in Versions
    /\ be_handle = [h \in H |-> "free"]
    /\ be_syntax = [h \in H |-> None]
    /\ be_resolver = [h \in H |-> None]
    /\ be_buf = [b \in Buffers |-> "free"]
    /\ opened = [s \in S |-> None]
    /\ nClose = [h \in H |-> 0]
    /\ nFree = 0
    /\ nNonEmpty = 0
    /\ crashed = FALSE
    /\ last = [op |-> "init", s |-> None]
    /\ out = NoOut
    /\ calls = <<>>
    /\ ret = NoResult

\* no Ks object constructed yet
Fresh == Unused(Sessions, Handles)

Threads == {1, 2}
\* a thread that is in no library call
Idle == [fn |-> "none", h |-> None, s |-> None, arg |-> None]
\* a thread inside the library call fn(h, arg), made by a method of Ks object s
InFlight(fn, h, s, arg) == [fn |-> fn, h |-> h, s |-> s, arg |-> arg]
\* no method is running
NoThreads ==
    /\ inflight = [t \in Threads |-> Idle]
    /\ lock = None
    /\ locking = FALSE

Init == Fresh /\ Imported /\ NoThreads

\* ------------------------------------------------------------ Ks.__init__
\* a version test that looks at the major number only
VersionDiffers_major_only(major, minor) == major # KS_API_MAJOR

\* the version test of __init__
VersionDiffers(major, minor) == major # KS_API_MAJOR \/ minor # KS_API_MINOR

\* a constructor that keeps whatever ks_open left in the handle cell
KshAfterOpen_kept(cell, st) == cell
\* self._ksh once ks_open has returned st with cell in the handle cell
KshAfterOpen(cell, st) == IF st # KS_ERR_OK THEN None ELSE cell

\* Ks(arch, mode): the backend answers ks_open with st
Ks(s, am, st) ==
    /\ ~crashed
    /\ UNCHANGED <<loader, threads>>
    /\ constructed[s] = "absent"
    /\ last' = [op |-> "Ks", s |-> s]
    /\ IF VersionDiffers(be_version[1], be_version[2])
       THEN /\ ksh' = [ksh EXCEPT ![s] = None]
            /\ constructed' = [constructed EXCEPT ![s] = "failed"]
            /\ calls' = <<Call("ks_version", None, None),
                          Call("ks_strerror", KS_ERR_VERSION, None)>>
            /\ ret' = KsError(KS_ERR_VERSION)
            /\ out' = NoOut
            /\ UNCHANGED <<archmode, syntax, be_handle, opened>>
       ELSE IF st # KS_ERR_OK
       THEN /\ archmode' = [archmode EXCEPT ![s] = am]
            /\ \E cell \in {None, FreshHandle} :
                  ksh' = [ksh EXCEPT ![s] = KshAfterOpen(cell, st)]
            /\ constructed' = [constructed EXCEPT ![s] = "failed"]
            /\ calls' = <<Call("ks_version", None, None),
                          Call("ks_open", am[1], am[2]),
                          Call("ks_strerror", st, None)>>
            /\ ret' = KsError(st)
            /\ out' = Status(st)
            /\ UNCHANGED <<syntax, be_handle, opened>>
       ELSE /\ archmode' = [archmode EXCEPT ![s] = am]
            /\ ksh' = [ksh EXCEPT ![s] = KshAfterOpen(FreshHandle, st)]
            /\ be_handle' = [be_handle EXCEPT ![FreshHandle] = "open"]
            /\ opened' = [opened EXCEPT ![s] = FreshHandle]
            /\ syntax' = [syntax EXCEPT ![s] = None]
            /\ constructed' = [constructed EXCEPT ![s] = "live"]
            /\ calls' = <<Call("ks_version", None, None),
                          Call("ks_open", am[1], am[2])>>
            /\ ret' = Returned
            /\ out' = Status(st)
    /\ UNCHANGED <<sym_resolver, be_version, be_syntax, be_resolver,
                   be_buf, nClose, nFree, nNonEmpty, crashed>>

\* ------------------------------------------------------------ Ks.__del__
\* a __del__ that never forgets its handle
DelKsh_kept(h, st) == h
\* a __del__ that raises before it forgets its handle
DelKsh_kept_on_error(h, st) == IF st # KS_ERR_OK THEN h ELSE None

\* self._ksh once ks_close has returned status st on handle h
DelKsh(h, st) == None
\* how __del__ ends: the KsError it raises on a non-OK status is caught by its
\* own except clause
DelResult(st) == Returned

\* __del__: the backend answers ks_close with st
Del(s, st) ==
    /\ ~crashed
    /\ UNCHANGED <<loader, threads>>
    /\ constructed[s] # "absent"
    /\ last' = [op |-> "del", s |-> s]
    /\ ret' = DelResult(st)
    /\ IF ksh[s] # None
       THEN /\ ksh' = [ksh EXCEPT ![s] = DelKsh(ksh[s], st)]
            /\ out' = Status(st)
            /\ nClose' = [nClose EXCEPT ![ksh[s]] = @ + 1]
            /\ calls' = <<Call("ks_close", ksh[s], None)>> \o
                        (IF st # KS_ERR_OK
                         THEN <<Call("ks_strerror", st, None)>> ELSE <<>>)
            /\ be_handle' = [be_handle EXCEPT ![ksh[s]] = "closed"]
            /\ be_resolver' = [be_resolver EXCEPT ![ksh[s]] = None]
       ELSE /\ calls' = <<>>
            /\ out' = NoOut
            /\ UNCHANGED <<ksh, nClose, be_handle, be_resolver>>
    /\ UNCHANGED <<constructed, archmode, syntax, sym_resolver,
                   be_version, be_syntax, be_buf, opened, nFree, nNonEmpty,
                   crashed>>

\* ------------------------------------------------ the library on a NULL handle
\* ks_option and ks_asm dereference their handle.  On the None a closed Ks
\* holds, the call either kills the process or comes back with a failure.
NullOptionStatus == KS_ERR_HANDLE

\* what ks_option can answer on handle h
OptionAnswers(h) ==
    IF h = None
    THEN {[die |-> d, st |-> NullOptionStatus] : d \in BOOLEAN}
    ELSE {[die |-> FALSE, st |-> st] : st \in OptionStatuses}

\* ------------------------------------------------------------ Ks.syntax
\* the getter
GetSyntax(s) ==
    /\ ~crashed
    /\ UNCHANGED <<loader, threads>>
    /\ constructed[s] = "live"
    /\ last' = [op |-> "get_syntax", s |-> s]
    /\ calls' = <<>>
    /\ ret' = Return("int", <<syntax[s]>>, 0)
    /\ out' = NoOut
    /\ UNCHANGED <<binding, backend, history, crashed>>

\* a setter that saves the style before it looks at the status
SyntaxAfter_saved_first(old, style, status) == style

\* self._syntax once ks_option has answered the setter with status
SyntaxAfter(old, style, status) == IF status # KS_ERR_OK THEN old ELSE style

\* a setter that caches the style in the class, for every Ks object
SetSyntax_class_attribute(s, style, r) ==
    /\ ~crashed
    /\ UNCHANGED <<loader, threads>>
    /\ constructed[s] = "live"
    /\ last' = [op |-> "set_syntax", s |-> s]
    /\ LET h == ksh[s]
           status == r.st
       IN  IF r.die
           THEN /\ crashed' = TRUE
                /\ calls' = <<Call("ks_option", h, KS_OPT_SYNTAX)>>
                /\ ret' = Crash
                /\ out' = NoOut
                /\ UNCHANGED <<syntax, be_syntax>>
           ELSE /\ calls' = <<Call("ks_option", h, KS_OPT_SYNTAX)>> \o
                            (IF status # KS_ERR_OK
                             THEN <<Call("ks_strerror", status, None)>> ELSE <<>>)
                /\ ret' = IF status # KS_ERR_OK THEN KsError(status) ELSE Returned
                /\ out' = Status(status)
                /\ syntax' = [b \in DOMAIN syntax |->
                               SyntaxAfter(syntax[b], style, status)]
                /\ be_syntax' = IF status = KS_ERR_OK
                                THEN [be_syntax EXCEPT ![h] = style] ELSE be_syntax
                /\ UNCHANGED crashed
    /\ UNCHANGED <<constructed, ksh, archmode, sym_resolver,
                   be_version, be_handle, be_resolver, be_buf, history>>

\* the setter: the backend answers ks_option with r
SetSyntax(s, style, r) ==
    /\ ~crashed
    /\ UNCHANGED <<loader, threads>>
    /\ constructed[s] = "live"
    /\ last' = [op |-> "set_syntax", s |-> s]
    /\ LET h == ksh[s]
           status == r.st
       IN  IF r.die
           THEN /\ crashed' = TRUE
                /\ calls' = <<Call("ks_option", h, KS_OPT_SYNTAX)>>
                /\ ret' = Crash
                /\ out' = NoOut
                /\ UNCHANGED <<syntax, be_syntax>>
           ELSE /\ calls' = <<Call("ks_option", h, KS_OPT_SYNTAX)>> \o
                            (IF status # KS_ERR_OK
                             THEN <<Call("ks_strerror", status, None)>> ELSE <<>>)
                /\ ret' = IF status # KS_ERR_OK THEN KsError(status) ELSE Returned
                /\ out' = Status(status)
                /\ syntax' = [syntax EXCEPT ![s] = SyntaxAfter(@, style, status)]
                /\ be_syntax' = IF status = KS_ERR_OK
                                THEN [be_syntax EXCEPT ![h] = style] ELSE be_syntax
                /\ UNCHANGED crashed
    /\ UNCHANGED <<constructed, ksh, archmode, sym_resolver,
                   be_version, be_handle, be_resolver, be_buf, history>>

\* ------------------------------------------------------ Ks.sym_resolver
\* the KS_SYM_RESOLVER objects some Ks object refers to: the others have been
\* collected
Alive == {sym_resolver[s] : s \in DOMAIN sym_resolver} \ {None}
\* the KS_SYM_RESOLVER objects the backend would call
Registered == {be_resolver[h] : h \in DOMAIN be_resolver} \ {None}
\* KS_SYM_RESOLVER(resolver) makes a new object, where no object is
NewCallbacks == (1..(Cardinality(DOMAIN sym_resolver) + 1)) \ (Alive \cup Registered)

\* a setter that does not keep the callback object
ResolverAfter_not_kept(old, callback, status) == old

\* self._sym_resolver once ks_option has answered the setter with status
ResolverAfter(old, callback, status) == IF status # KS_ERR_OK THEN old ELSE callback

\* the setter: callback is a new KS_SYM_RESOLVER object, which lives on only
\* if the Ks object keeps it; the backend answers ks_option with r
SetSymResolver(s, r) ==
    /\ ~crashed
    /\ UNCHANGED <<loader, threads>>
    /\ constructed[s] = "live"
    /\ NewCallbacks # {}
    /\ last' = [op |-> "set_sym_resolver", s |-> s]
    /\ LET h == ksh[s]
           callback == CHOOSE c \in NewCallbacks : \A d \in NewCallbacks : c <= d
           status == r.st
       IN  IF r.die
           THEN /\ crashed' = TRUE
                /\ calls' = <<Call("ks_option", h, KS_OPT_SYM_RESOLVER)>>
                /\ ret' = Crash
                /\ out' = NoOut
                /\ UNCHANGED <<sym_resolver, be_resolver>>
           ELSE /\ calls' = <<Call("ks_option", h, KS_OPT_SYM_RESOLVER)>> \o
                            (IF status # KS_ERR_OK
                             THEN <<Call("ks_strerror", status, None)>> ELSE <<>>)
                /\ ret' = IF status # KS_ERR_OK THEN KsError(status) ELSE Returned
                /\ out' = Status(status)
                /\ sym_resolver' = [sym_resolver EXCEPT
                                       ![s] = ResolverAfter(@, callback, status)]
                /\ be_resolver' = IF status = KS_ERR_OK
                                  THEN [be_resolver EXCEPT ![h] = callback]
                                  ELSE be_resolver
                /\ UNCHANGED crashed
    /\ UNCHANGED <<constructed, ksh, archmode, syntax,
                   be_version, be_handle, be_syntax, be_buf, history>>

\* ------------------------------------------------------------ Ks.asm
\* what ks_asm can hand back: its return value, the error code it leaves for
\* ks_errno, the statement count, the bytes it encoded, and whether it
\* allocated a buffer for them (always for a non-empty result; for an empty
\* one the allocator may give a buffer or NULL)
AsmOutcome(status, errno, count, bytes, alloc, die) ==
    [status |-> status, errno |-> errno, count |-> count, bytes |-> bytes,
     alloc |-> alloc, die |-> die]
AsmSuccesses ==
    {AsmOutcome(0, KS_ERR_OK, c, b, TRUE, FALSE) : c \in StatCounts \ {0}, b \in Encodings}
    \cup {AsmOutcome(0, KS_ERR_OK, 0, <<>>, a, FALSE) : a \in BOOLEAN}
AsmFailures ==
    UNION {{AsmOutcome(f[1], f[2], c, <<>>, FALSE, FALSE) : c \in StatCounts} :
              f \in (AsmStatuses \ {0}) \X AsmErrnos}
\* what ks_asm can answer on handle h; on a NULL handle the process dies or
\* the call fails
AsmAnswers(h) ==
    IF h = None
    THEN AsmFailures \cup {AsmOutcome(-1, KS_ERR_HANDLE, 0, <<>>, FALSE, TRUE)}
    ELSE AsmSuccesses \cup AsmFailures

\* a string_at that reads one byte too few
StringAt_short(mem, size) == [i \in 1..(size - 1) |-> mem[i]]
\* string_at(encode, size)
StringAt(mem, size) == [i \in 1..size |-> mem[i]]
\* the loop appending encode[i] for i in range(size)
ListOf(mem, size) == [i \in 1..size |-> mem[i]]

\* an asm whose as_bytes branch returns without releasing the buffer
AsmCalls_bytes_not_freed(as_bytes, status, count, buf, size) ==
    IF status # 0
    THEN <<Call("ks_strerror", status, None)>>
    ELSE IF count = 0
    THEN <<>>
    ELSE IF as_bytes
    THEN <<Call("string_at", buf, size)>>
    ELSE <<Call("index", buf, size), Call("ks_free", buf, None)>>

\* the library calls asm makes once ks_asm has returned
AsmCalls(as_bytes, status, count, buf, size) ==
    IF status # 0
    THEN <<Call("ks_strerror", status, None)>>
    ELSE IF count = 0
    THEN <<>>
    ELSE <<Call(IF as_bytes THEN "string_at" ELSE "index", buf, size),
           Call("ks_free", buf, None)>>

\* an asm that treats a statement count of zero as a failure
AsmResult_empty_is_error(as_bytes, status, count, mem, size) ==
    IF status # 0 \/ count = 0
    THEN KsError(status)
    ELSE IF as_bytes
    THEN Return("bytes", StringAt(mem, size), count)
    ELSE Return("list", ListOf(mem, size), count)
\* an asm that hands back the statements counted before a failure
AsmResult_partial(as_bytes, status, count, mem, size) ==
    IF count = 0
    THEN IF status # 0 THEN KsError(status) ELSE Return("None", <<>>, 0)
    ELSE IF as_bytes
    THEN Return("bytes", StringAt(mem, size), count)
    ELSE Return("list", ListOf(mem, size), count)

\* an asm that never looks at the status ks_asm returned
AsmResult_status_unchecked(as_bytes, status, count, mem, size) ==
    IF count = 0
    THEN Return("None", <<>>, 0)
    ELSE IF as_bytes
    THEN Return("bytes", StringAt(mem, size), count)
    ELSE Return("list", ListOf(mem, size), count)

\* how asm ends once ks_asm has returned
AsmResult(as_bytes, status, count, mem, size) ==
    IF status # 0
    THEN KsError(status)
    ELSE IF count = 0
    THEN Return("None", <<>>, 0)
    ELSE IF as_bytes
    THEN Return("bytes", StringAt(mem, size), count)
    ELSE Return("list", ListOf(mem, size), count)

\* the buffers after ks_free(b)
Freed(bufs, b) ==
    IF b \notin Buffers THEN bufs
    ELSE [bufs EXCEPT ![b] = IF @ = "live" THEN "freed" ELSE "double_freed"]

RECURSIVE AfterCalls(_, _)
\* the buffers after a sequence of library calls
AfterCalls(bufs, cs) ==
    IF cs = <<>> THEN bufs
    ELSE AfterCalls(IF Head(cs).fn = "ks_free" THEN Freed(bufs, Head(cs).a) ELSE bufs,
                    Tail(cs))

NumFrees(cs) == Cardinality({i \in 1..Len(cs) : cs[i].fn = "ks_free"})

\* asm(string, addr, as_bytes): the backend answers ks_asm with o
Asm(s, as_bytes, o) ==
    /\ ~crashed
    /\ UNCHANGED <<loader, threads>>
    /\ constructed[s] = "live"
    /\ o.alloc => \E b \in Buffers : be_buf[b] = "free"
    /\ last' = [op |-> "asm", s |-> s]
    /\ LET h == ksh[s]
           buf == IF o.alloc THEN FreshBuf ELSE None
           size == Len(o.bytes)
           made == AsmCalls(as_bytes, o.status, o.count, buf, size)
       IN  IF o.die
           THEN /\ crashed' = TRUE
                /\ calls' = <<Call("ks_asm", h, None)>>
                /\ ret' = Crash
                /\ out' = NoOut
                /\ UNCHANGED <<be_buf, nFree, nNonEmpty>>
           ELSE /\ out' = [status |-> o.status, errno |-> o.errno, count |-> o.count,
                           bytes |-> o.bytes, buf |-> buf]
                /\ calls' = <<Call("ks_asm", h, None)>> \o made
                /\ ret' = AsmResult(as_bytes, o.status, o.count, o.bytes, size)
                /\ be_buf' = AfterCalls(IF o.alloc
                                        THEN [be_buf EXCEPT ![buf] = "live"]
                                        ELSE be_buf, made)
                /\ nFree' = nFree + NumFrees(made)
                /\ nNonEmpty' = nNonEmpty +
                                (IF o.status = 0 /\ o.count # 0 THEN 1 ELSE 0)
                /\ UNCHANGED crashed
    /\ UNCHANGED <<binding, be_version, be_handle, be_syntax, be_resolver,
                   opened, nClose>>

\* ------------------------------------------------------------ the program
Next ==
    \/ \E s \in Sessions, am \in ArchModes, st \in OpenStatuses : Ks(s, am, st)
    \/ \E s \in Sessions, st \in CloseStatuses : Del(s, st)
    \/ \E s \in Sessions : GetSyntax(s)
    \/ \E s \in Sessions, style \in Styles :
          \E r \in OptionAnswers(ksh[s]) : SetSyntax(s, style, r)
    \/ \E s \in Sessions : \E r \in OptionAnswers(ksh[s]) : SetSymResolver(s, r)
    \/ \E s \in Sessions, as_bytes \in BOOLEAN :
          \E o \in AsmAnswers(ksh[s]) : Asm(s, as_bytes, o)

Spec == Init /\ [][Next]_vars

\* two Ks objects, A and B, side by side (asm with its default as_bytes = False)
Pair == {1, 2}
PairInit == Unused(Pair, Pair) /\ Imported /\ NoThreads
PairNext ==
    \/ \E s \in Pair, am \in ArchModes, st \in OpenStatuses : Ks(s, am, st)
    \/ \E s \in Pair, st \in CloseStatuses : Del(s, st)
    \/ \E s \in Pair : GetSyntax(s)
    \/ \E s \in Pair, style \in Styles :
          \E r \in OptionAnswers(ksh[s]) : SetSyntax(s, style, r)
    \/ \E s \in Pair : \E r \in OptionAnswers(ksh[s]) : SetSymResolver(s, r)
    \/ \E s \in Pair : \E o \in AsmAnswers(ksh[s]) : Asm(s, FALSE, o)

PairSpec == PairInit /\ [][PairNext]_vars

\* the first use of an imported module: a Ks is constructed
FirstKs(s, am, st) ==
    /\ imported = "ok"
    /\ \A o \in Sessions : constructed[o] = "absent"
    /\ Ks(s, am, st)

LoaderNext ==
    \/ ImportKeystone
    \/ \E s \in Sessions, am \in ArchModes, st \in OpenStatuses : FirstKs(s, am, st)

\* the program from before the module is imported
LoaderInit ==
    /\ Fresh
    /\ be_version = <<KS_API_MAJOR, KS_API_MINOR>>
    /\ NotImported
    /\ NoThreads

LoaderSpec == LoaderInit /\ [][LoaderNext]_vars

\* ------------------------------------------------------------ two threads
\* Ks methods called from two threads. A call into the library releases the
\* interpreter lock, so a method is two steps: up to the call it makes, and from
\* the call's return on.
\* a method that hands ks_asm to a worker and returns at once
Synchronous_asm_offloaded(fn) == fn # "ks_asm"
\* a method returns to its caller only after the library call it made has
\* returned
Synchronous(fn) == TRUE

\* the callers' lock as thread t enters a method
Enter(t) == locking => lock = None
\* the callers' lock once t's method has made the call fn
Entered(t, fn) == IF locking /\ Synchronous(fn) THEN t ELSE None
\* the callers' lock once t's call has returned
Left(t) == IF lock = t THEN None ELSE lock

\* what a call on handle h in flight can come back with: one of its statuses,
\* or anything at all when the handle is NULL or was closed under the call
InFlightAnswers(h, statuses) ==
    {[die |-> FALSE, st |-> st] : st \in statuses}
    \cup (IF h = None \/ be_handle[h] # "open"
          THEN {[die |-> TRUE, st |-> KS_ERR_HANDLE]} ELSE {})

\* thread t in asm, up to _ks.ks_asm(self._ksh, ...)
CallAsm(t, s) ==
    /\ ~crashed /\ inflight[t] = Idle /\ Enter(t)
    /\ constructed[s] = "live"
    /\ inflight' = [inflight EXCEPT ![t] = InFlight("ks_asm", ksh[s], s, None)]
    /\ lock' = Entered(t, "ks_asm")
    /\ UNCHANGED <<binding, backend, history, crashed, last, out, calls, ret,
                   loader, locking>>

\* thread t in the syntax setter, up to _ks.ks_option(self._ksh, KS_OPT_SYNTAX, style)
CallOption(t, s, style) ==
    /\ ~crashed /\ inflight[t] = Idle /\ Enter(t)
    /\ constructed[s] = "live"
    /\ inflight' = [inflight EXCEPT ![t] = InFlight("ks_option", ksh[s], s, style)]
    /\ lock' = Entered(t, "ks_option")
    /\ UNCHANGED <<binding, backend, history, crashed, last, out, calls, ret,
                   loader, locking>>

\* thread t in __del__, up to _ks.ks_close(self._ksh); a __del__ that finds no
\* handle returns at once, having changed nothing
CallClose(t, s) ==
    /\ ~crashed /\ inflight[t] = Idle /\ Enter(t)
    /\ constructed[s] # "absent"
    /\ ksh[s] # None
    /\ inflight' = [inflight EXCEPT ![t] = InFlight("ks_close", ksh[s], s, None)]
    /\ lock' = Entered(t, "ks_close")
    /\ UNCHANGED <<binding, backend, history, crashed, last, out, calls, ret,
                   loader, locking>>

\* the method that makes the library call fn
MethodOf(fn) ==
    CASE fn = "ks_asm" -> "asm"
      [] fn = "ks_option" -> "set_syntax"
      [] OTHER -> "del"

\* thread t's library call has returned r: the rest of its method
CallReturns(t, r) ==
    /\ ~crashed /\ inflight[t] # Idle
    /\ inflight' = [inflight EXCEPT ![t] = Idle]
    /\ lock' = Left(t)
    /\ LET c == inflight[t]
       IN  /\ last' = [op |-> MethodOf(c.fn), s |-> c.s]
           /\ calls' = <<Call(c.fn, c.h, c.arg)>>
           /\ IF r.die
              THEN /\ crashed' = TRUE
                   /\ ret' = Crash
                   /\ out' = NoOut
                   /\ UNCHANGED <<ksh, syntax, be_handle, be_syntax, be_resolver, nClose>>
              ELSE /\ UNCHANGED crashed
                   /\ out' = Status(r.st)
                   /\ CASE c.fn = "ks_asm" ->
                             /\ ret' = AsmResult(FALSE, r.st, 0, <<>>, 0)
                             /\ UNCHANGED <<ksh, syntax, be_handle, be_syntax,
                                            be_resolver, nClose>>
                        [] c.fn = "ks_option" ->
                             /\ ret' = IF r.st # KS_ERR_OK THEN KsError(r.st) ELSE Returned
                             /\ syntax' = [syntax EXCEPT ![c.s] = SyntaxAfter(@, c.arg, r.st)]
                             /\ be_syntax' = IF r.st = KS_ERR_OK /\ c.h # None
                                             THEN [be_syntax EXCEPT ![c.h] = c.arg]
                                             ELSE be_syntax
                             /\ UNCHANGED <<ksh, be_handle, be_resolver, nClose>>
                        [] OTHER ->
                             /\ ret' = DelResult(r.st)
                             /\ ksh' = [ksh EXCEPT ![c.s] = DelKsh(c.h, r.st)]
                             /\ nClose' = [nClose EXCEPT ![c.h] = @ + 1]
                             /\ be_handle' = [be_handle EXCEPT ![c.h] = "closed"]
                             /\ be_resolver' = [be_resolver EXCEPT ![c.h] = None]
                             /\ UNCHANGED <<syntax, be_syntax>>
    /\ UNCHANGED <<constructed, archmode, sym_resolver, be_version, be_buf,
                   opened, nFree, nNonEmpty, loader, locking>>

\* the statuses the library call fn can return
StatusesOf(fn) ==
    CASE fn = "ks_asm" -> AsmStatuses
      [] fn = "ks_option" -> OptionStatuses
      [] OTHER -> CloseStatuses

\* every Ks object constructed and open, no method running; the callers either
\* take a lock around each method or do not
ThreadInit ==
    /\ constructed = [s \in Sessions |-> "live"]
    /\ ksh = [s \in Sessions |-> s]
    /\ archmode = [s \in Sessions |-> CHOOSE am \in ArchModes : TRUE]
    /\ syntax = [s \in Sessions |-> None]
    /\ sym_resolver = [s \in Sessions |-> None]
    /\ be_version = <<KS_API_MAJOR, KS_API_MINOR>>
    /\ be_handle = [h \in Handles |-> "open"]
    /\ be_syntax = [h \in Handles |-> None]
    /\ be_resolver = [h \in Handles |-> None]
    /\ be_buf = [b \in Buffers |-> "free"]
    /\ opened = [s \in Sessions |-> s]
    /\ nClose = [h \in Handles |-> 0]
    /\ nFree = 0
    /\ nNonEmpty = 0
    /\ crashed = FALSE
    /\ last = [op |-> "Ks", s |-> NumSessions]
    /\ out = Status(KS_ERR_OK)
    /\ calls = <<Call("ks_version", None, None),
                 Call("ks_open", (CHOOSE am \in ArchModes : TRUE)[1],
                                 (CHOOSE am \in ArchModes : TRUE)[2])>>
    /\ ret = Returned
    /\ Imported
    /\ inflight = [t \in Threads |-> Idle]
    /\ lock = None
    /\ locking \in BOOLEAN

ThreadNext ==
    \/ \E t \in Threads, s \in Sessions : CallAsm(t, s)
    \/ \E t \in Threads, s \in Sessions, style \in Styles : CallOption(t, s, style)
    \/ \E t \in Threads, s \in Sessions : CallClose(t, s)
    \/ \E t \in Threads :
          \E r \in InFlightAnswers(inflight[t].h, StatusesOf(inflight[t].fn)) : CallReturns(t, r)

ThreadSpec == ThreadInit /\ [][ThreadNext]_vars

\* ================================================================ claims
HasCall(fn) == \E i \in 1..Len(calls) : calls[i].fn = fn
\* the Ks object was opened and its finalizer has released the handle
Closed(s) == constructed[s] = "live" /\ opened[s] # None /\ ksh[s] = None
Mismatch == be_version # <<KS_API_MAJOR, KS_API_MINOR>>

\* C1: when the backend's (major, minor) differs from (KS_API_MAJOR,
\* KS_API_MINOR) in either component, Ks(arch, mode) raises
\* KsError(KS_ERR_VERSION), ks_open is not called, no handle is held or
\* allocated; and in every construction ks_version is called before ks_open.
C1_VersionGate ==
    /\ Mismatch =>
          /\ \A s \in Sessions : constructed[s] # "live" /\ ksh[s] = None
                                 /\ opened[s] = None
          /\ \A h \in Handles : be_handle[h] = "free"
          /\ last.op = "Ks" => ret = KsError(KS_ERR_VERSION) /\ ~HasCall("ks_open")
    /\ last.op = "Ks" =>
          \A i \in 1..Len(calls) :
              calls[i].fn = "ks_open" => \E j \in 1..(i - 1) : calls[j].fn = "ks_version"
C1_Witness ==
    /\ be_version = <<KS_API_MAJOR, KS_API_MINOR - 1>>
    /\ last.op = "Ks" /\ constructed[last.s] = "failed" /\ ret.kind = "raise"

\* C2 (as claimed): asm on a closed Ks object raises and makes no ks_asm call.
C2_ClosedAsmRejected ==
    (last.op = "asm" /\ Closed(last.s)) => (ret.kind = "raise" /\ ~HasCall("ks_asm"))

\* C3: ks_close is called at most once on a handle, and a __del__ on a Ks
\* object that holds no handle calls nothing, changes nothing and returns.
C3_CloseIdempotent ==
    /\ [](\A h \in Handles : nClose[h] <= 1)
    /\ [][(last'.op = "del" /\ Closed(last'.s))
            => (/\ calls' = <<>>
                /\ ret' = Returned
                /\ UNCHANGED <<binding, backend, history, crashed>>)]_vars
C3_Witness ==
    /\ last.op = "del" /\ Closed(last.s) /\ calls = <<>>
    /\ nClose[opened[last.s]] = 1

\* C4: when ks_close returns a non-OK status, __del__ still returns normally
\* and the Ks object holds no handle afterwards.
C4_CloseSwallowsError ==
    (last.op = "del" /\ HasCall("ks_close") /\ out.status # KS_ERR_OK)
        => (ret = Returned /\ ksh[last.s] = None)
C4_Witness ==
    /\ last.op = "del" /\ HasCall("ks_close") /\ out.status = KS_ERR_HANDLE
    /\ ret = Returned

\* C5 (as claimed): when ks_asm reports failure, the KsError asm raises
\* carries the code ks_errno reports for the handle, and the backend's text
\* for that code.
C5_AsmErrorIsErrno ==
    (last.op = "asm" /\ ret.kind # "crash" /\ out.status # 0)
        => (ret.kind = "raise" /\ ret.errno = out.errno
            /\ ret.message = StrError(out.errno))

\* the last operation was an asm whose ks_asm call came back
AsmCameBack == last.op = "asm" /\ ret.kind # "crash"
IsRead(c) == c.fn \in {"string_at", "index"}

\* C6: the ks_free calls are as many as the asm calls that succeeded with a
\* non-zero statement count; such a call frees its own buffer once, after
\* reading it into the value it returns; no other call frees anything and no
\* buffer is freed twice.
C6_BufferReleasedOnce ==
    /\ nFree = nNonEmpty
    /\ \A b \in Buffers : be_buf[b] # "double_freed"
    /\ AsmCameBack =>
          /\ NumFrees(calls) = (IF out.status = 0 /\ out.count # 0 THEN 1 ELSE 0)
          /\ \A i \in 1..Len(calls) :
                calls[i].fn = "ks_free" =>
                   /\ calls[i].a = out.buf
                   /\ be_buf[out.buf] = "freed"
                   /\ \E j \in 1..(i - 1) : IsRead(calls[j]) /\ calls[j].a = out.buf
                   /\ ret.kind = "return" /\ ret.enc = out.bytes
C6_Witness ==
    /\ AsmCameBack /\ out.status = 0 /\ out.count # 0
    /\ nFree = MaxBufs /\ be_buf[out.buf] = "freed" /\ ret.rep = "bytes"

\* C7: when ks_asm reports success with a statement count of zero, asm
\* returns (None, 0) and raises nothing.
C7_EmptyIsNotAnError ==
    (AsmCameBack /\ out.status = 0 /\ out.count = 0)
        => (ret = Return("None", <<>>, 0) /\ ~HasCall("ks_strerror"))
C7_Witness ==
    /\ AsmCameBack /\ HasCall("ks_asm") /\ out.status = 0 /\ out.count = 0
    /\ ret.kind = "return"

\* C8: an asm whose ks_asm call fails raises, hands back no bytes and no
\* statement count, and leaves the Ks object's handle, syntax and resolver
\* (and the backend's view of them) as they were; the next asm on the object
\* is made on the same handle.
C8_FailedAsmLeavesSession ==
    /\ [][(last'.op = "asm" /\ ret'.kind # "crash" /\ out'.status # 0)
            => (/\ ret'.kind = "raise"
                /\ ret'.rep = "" /\ ret'.enc = <<>> /\ ret'.count = 0
                /\ UNCHANGED <<binding, be_handle, be_syntax, be_resolver>>)]_vars
    /\ [][(AsmCameBack /\ out.status # 0 /\ last'.op = "asm" /\ last'.s = last.s)
            => calls'[1] = Call("ks_asm", ksh[last.s], None)]_vars
C8_Witness ==
    /\ AsmCameBack /\ out.status # 0 /\ out.count # 0 /\ ret.kind = "raise"
    /\ ksh[last.s] # None /\ be_handle[ksh[last.s]] = "open"
    /\ syntax[last.s] # None /\ sym_resolver[last.s] # None

\* C9: the callback the backend has registered on a handle is the callback
\* object the Ks object that opened the handle refers to.
C9_ResolverKeptAlive ==
    /\ Registered \subseteq Alive
    /\ \A s \in Sessions :
          (opened[s] # None /\ be_resolver[opened[s]] # None)
              => sym_resolver[s] = be_resolver[opened[s]]
C9_Witness ==
    /\ last.op = "set_sym_resolver" /\ ret.kind = "raise"
    /\ ksh[last.s] # None
    /\ be_resolver[ksh[last.s]] = 2 /\ sym_resolver[last.s] = 2

\* C10: the syntax a Ks object reads back is the style of the last syntax
\* assignment the backend accepted on its handle, None if there was none; a
\* rejected assignment raises KsError with the backend's status and leaves
\* the cached syntax as it was.
C10_SyntaxReadBack ==
    /\ [](\A s \in Sessions :
            constructed[s] = "live" => syntax[s] = be_syntax[opened[s]])
    /\ [](last.op = "get_syntax" => ret.enc = <<be_syntax[opened[last.s]]>>)
    /\ []((last.op = "set_syntax" /\ ret.kind # "crash" /\ out.status # KS_ERR_OK)
            => ret = KsError(out.status))
    /\ [][(last'.op = "set_syntax" /\ out'.status # KS_ERR_OK) => syntax' = syntax]_vars
C10_Witness ==
    /\ last.op = "set_syntax" /\ ret.kind = "raise" /\ ksh[last.s] # None
    /\ syntax[last.s] = 2

\* the last operation made the backend call fn and got a non-OK status back
Refused(op, fn) ==
    last.op = op /\ ret.kind # "crash" /\ HasCall(fn) /\ out.status # KS_ERR_OK

\* C11: a non-OK status from ks_open, from ks_option (syntax or sym_resolver)
\* or from ks_asm makes the operation raise KsError instead of returning, and
\* __del__ is the only operation that returns after a non-OK status (the one
\* ks_close gave it).
C11_NonOkRaises ==
    /\ Refused("Ks", "ks_open") => ret.kind = "raise"
    /\ Refused("set_syntax", "ks_option") => ret.kind = "raise"
    /\ Refused("set_sym_resolver", "ks_option") => ret.kind = "raise"
    /\ Refused("asm", "ks_asm") => ret.kind = "raise"
    /\ (ret.kind = "return" /\ out.status # KS_ERR_OK) =>
          (last.op = "del" /\ HasCall("ks_close"))
C11_Witness ==
    /\ Refused("asm", "ks_asm") /\ ksh[last.s] # None /\ out.count # 0
    /\ ret.kind = "raise"

\* C12: a Ks object whose construction failed (version mismatch or non-OK
\* ks_open) holds no handle and owns none in the backend, and its __del__
\* calls nothing.
C12_FailedOpenHoldsNothing ==
    /\ \A s \in Sessions :
          constructed[s] = "failed" => ksh[s] = None /\ opened[s] = None
    /\ \A h \in Handles :
          be_handle[h] = "open" =>
              \E s \in Sessions : constructed[s] = "live" /\ ksh[s] = h
    /\ (last.op = "del" /\ constructed[last.s] = "failed") =>
          calls = <<>>
C12_Witness ==
    /\ ~Mismatch
    /\ last.op = "del" /\ constructed[last.s] = "failed" /\ ret = Returned

RECURSIVE Concat(_)
Concat(qs) == IF qs = <<>> THEN <<>> ELSE Head(qs) \o Concat(Tail(qs))
Existing(fs) == SelectSeq(fs, LAMBDA f : f \in present)
\* the candidates in the order of the four stages: (a) the module directory,
\* per pattern the exact file name then the glob matches, (b) the bare names,
\* (c) the search paths, (d) the Python lib directory
Candidates ==
    LET patterns == _lib_patterns(_system)
        libs == _standard_libs(_system)
        paths == _search_paths(_system, environ)
    IN  Concat([i \in 1..Len(patterns) |->
                   Existing(<<Place(_lib_path, patterns[i])>>) \o Glob(patterns[i])])
        \o Under(NoDir, libs)
        \o Concat([i \in 1..Len(paths) |-> Existing(Under(paths[i], libs))])
        \o (IF distutils THEN Existing(Under(_python_lib, libs)) ELSE <<>>)
\* the position of the first candidate that loads, 0 if none does
FirstLoadable(fs) ==
    IF \A i \in 1..Len(fs) : fs[i] \notin loadable THEN 0
    ELSE CHOOSE i \in 1..Len(fs) :
             fs[i] \in loadable /\ \A j \in 1..(i - 1) : fs[j] \notin loadable

IssuesClose(t) == inflight[t] = Idle /\ inflight'[t].fn = "ks_close"
\* a thread other than t is inside ks_asm or ks_option on handle h
OthersInside(t, h) ==
    \E u \in Threads \ {t} : inflight[u].fn \in {"ks_asm", "ks_option"} /\ inflight[u].h = h

C15_ClosedOptionRejected ==
    (last.op \in {"set_syntax", "set_sym_resolver"} /\ Closed(last.s)) =>
        (ret.kind = "raise" /\ ~HasCall("ks_option"))

\* C16 (as claimed): once an asm call has returned, no result buffer the
\* backend allocated is still unreleased, a buffer handed back with a statement
\* count of zero included.
C16_NoBufferOutstanding ==
    \A b \in Buffers : be_buf[b] # "live"

\* the library calls of the last operation that take a handle
OnHandle(i) == calls[i].fn \in {"ks_close", "ks_option", "ks_asm"}

\* C17: an operation on one Ks object leaves every other Ks object's handle,
\* constructed/closed state, cached syntax and kept resolver as they were, and
\* likewise what the backend holds for the other's handle; the library calls
\* it makes carry its own handle, never another object's; and two Ks objects
\* never hold the same handle.
C17_SessionsIsolated ==
    /\ [](\A a, b \in Pair : (a # b /\ ksh[a] # None) => ksh[a] # ksh[b])
    /\ [][\A b \in Pair \ {last'.s} :
              /\ ksh'[b] = ksh[b] /\ constructed'[b] = constructed[b]
              /\ opened'[b] = opened[b] /\ archmode'[b] = archmode[b]
              /\ syntax'[b] = syntax[b] /\ sym_resolver'[b] = sym_resolver[b]
              /\ ksh[b] # None =>
                    /\ be_handle'[ksh[b]] = be_handle[ksh[b]]
                    /\ be_syntax'[ksh[b]] = be_syntax[ksh[b]]
                    /\ be_resolver'[ksh[b]] = be_resolver[ksh[b]]
                    /\ nClose'[ksh[b]] = nClose[ksh[b]]
              /\ \A i \in 1..Len(calls') :
                    OnHandle(i)' => calls'[i].a = ksh[last'.s]
                                    /\ (ksh[b] # None => calls'[i].a # ksh[b])]_vars
C17_Witness ==
    /\ last = [op |-> "del", s |-> 1] /\ Closed(1) /\ HasCall("ks_close")
    /\ ksh[2] # None /\ be_handle[ksh[2]] = "open"
    /\ syntax[2] # None /\ sym_resolver[2] # None /\ be_resolver[ksh[2]] = sym_resolver[2]

\* C18: the LoadLibrary calls of the import are the candidates in the order of
\* the four stages, up to and including the first one that loads: a candidate
\* whose load raises OSError is passed over, the library kept is the first
\* candidate that loads, and nothing is attempted after it.
C18_DiscoveryOrder ==
    imported # "no" =>
        LET first == FirstLoadable(Candidates)
        IN  IF first = 0
            THEN attempts = Candidates /\ _ks = NoLib /\ ~_found
            ELSE attempts = SubSeq(Candidates, 1, first) /\ _ks = Candidates[first]
                 /\ _found
C18_Witness ==
    /\ imported = "ok" /\ Len(attempts) = 3
    /\ attempts[1].dir = _lib_path /\ attempts[1] \notin loadable
    /\ attempts[2].dir = NoDir
    /\ attempts[3].dir = NoDir /\ _ks = attempts[3]

\* the calls into the native library among cs (string_at and indexing read the
\* buffer from Python)
LibraryCalls(cs) == SelectSeq(cs, LAMBDA c : ~IsRead(c))

\* C19: for what ks_asm handed back to the last asm (status, buffer, size,
\* statement count), asm with as_bytes = True and asm with as_bytes = False end
\* the same way, with the same byte values in the same order, the same length
\* and the same statement count, and make the same library calls (the one
\* ks_asm, the same ks_free); they differ only in returning bytes or a list.
C19_AsBytesIsRepresentation ==
    AsmCameBack =>
        \A as_bytes \in BOOLEAN :
            LET size == Len(out.bytes)
                res == AsmResult(as_bytes, out.status, out.count, out.bytes, size)
                made == AsmCalls(as_bytes, out.status, out.count, out.buf, size)
            IN  /\ res.kind = ret.kind /\ res.errno = ret.errno
                /\ res.enc = ret.enc /\ Len(res.enc) = Len(ret.enc)
                /\ res.count = ret.count
                /\ LibraryCalls(made) = LibraryCalls(Tail(calls))
                /\ calls[1].fn = "ks_asm" /\ ~\E i \in 2..Len(calls) : calls[i].fn = "ks_asm"
                /\ res.rep # ret.rep => {res.rep, ret.rep} = {"bytes", "list"}
C19_Witness ==
    /\ AsmCameBack /\ ret.rep = "list" /\ ret.enc = <<235, 254>> /\ ret.count = 1
    /\ calls = <<Call("ks_asm", ksh[last.s], None), Call("index", out.buf, 2),
                 Call("ks_free", out.buf, None)>>

====
